---- MODULE Spec2Model ----
(***************************************************************************)
(* Model of the FurnitureFlip pricing core (backend/main.py):              *)
(*   extract_price_from_text, google_cse_search, build_comps and           *)
(*   recommend_price (specification Spec), and of the frontend session     *)
(*   (frontend/app.py): call_backend_interpret and the chat and form       *)
(*   handlers (specification SpecFrontend).                                *)
(*                                                                         *)
(* Representation.                                                         *)
(*   - A Python str is a sequence of one-character strings.                *)
(*   - An Optional value is <<>> (None) or <<v>> (the value v).            *)
(*   - Money is an integer number of cents (1234.50 is 123450).  The       *)
(*     arithmetic of recommend_price is carried out exactly on rationals   *)
(*     (numerator over a positive denominator) and round(x, 2) is the      *)
(*     nearest cent, ties to even, of the exact value.                     *)
(***************************************************************************)
EXTENDS Integers, Sequences, FiniteSets, TLC

VARIABLES
    pc,                  \* "call": a call is about to run; "done": it has returned or raised
    call,                \* the call: [op |-> ..., and its arguments]
    ret,                 \* the outcome of the call
    ENABLE_LIVE_COMPS,   \* module-level configuration, read once from the environment
    GOOGLE_CSE_API_KEY,
    GOOGLE_CSE_CX,
    http_gets            \* number of requests.get calls issued to the search API

vars == <<pc, call, ret, ENABLE_LIVE_COMPS, GOOGLE_CSE_API_KEY, GOOGLE_CSE_CX, http_gets>>

\* The frontend (frontend/app.py): one Streamlit session and the call of
\* call_backend_interpret its handler is in.
VARIABLES
    messages,            \* len(st.session_state.messages)
    last_agent,          \* st.session_state.last_agent
    sell_context,        \* st.session_state.sell_context
    form_data,           \* st.session_state.form_data
    handler,             \* "idle", or the handler that is inside call_backend_interpret: "chat", "form"
    attempt_log,         \* the POST attempts of the current (or last) call, in order
    last_err,            \* call_backend_interpret's last_err ("" for None)
    interactions         \* number of handler runs started in the session

fvars == <<messages, last_agent, sell_context, form_data, handler, attempt_log, last_err,
           interactions>>

config == <<ENABLE_LIVE_COMPS, GOOGLE_CSE_API_KEY, GOOGLE_CSE_CX>>

-----------------------------------------------------------------------------
(* Bounds of the model *)

MaxTextLen == 4
MaxResults == 2
MaxComps == 3
MaxInteractions == 3

-----------------------------------------------------------------------------
(* Python values *)

None == <<>>

Some(v) == <<v>>

\* Python truthiness of an Optional[float]: None and 0.0 are falsy
TruthyNum(o) == o # None /\ o[1] # 0

\* Python truthiness of an Optional[str]: None and "" are falsy
TruthyStr(o) == o # None /\ o[1] # <<>>

\* a or b, on Optional[float]
OrNum(a, b) == IF TruthyNum(a) THEN a ELSE b

BoundedSeq(S, n) == UNION {[1..k -> S] : k \in 0..n}

Digits == {"0", "1", "2", "3", "4", "5", "6", "7", "8", "9"}

IsDigit(c) == c \in Digits

IsSpace(c) == c = " "

DigitVal(c) ==
    CASE c = "0" -> 0 [] c = "1" -> 1 [] c = "2" -> 2 [] c = "3" -> 3
      [] c = "4" -> 4 [] c = "5" -> 5 [] c = "6" -> 6 [] c = "7" -> 7
      [] c = "8" -> 8 [] c = "9" -> 9

\* str.lower() on one character (the letters the model's strings use)
LowerChar(c) ==
    CASE c = "A" -> "a" [] c = "B" -> "b" [] c = "C" -> "c" [] c = "E" -> "e"
      [] c = "F" -> "f" [] c = "H" -> "h" [] c = "I" -> "i" [] c = "K" -> "k"
      [] c = "L" -> "l" [] c = "O" -> "o" [] c = "R" -> "r" [] c = "S" -> "s"
      [] c = "T" -> "t"
      [] OTHER -> c

\* str.lower()
Lower(s) == [i \in DOMAIN s |-> LowerChar(s[i])]

RECURSIVE Replace(_, _, _)
\* s.replace(c, r) for a single character c and a replacement string r
Replace(s, c, r) ==
    IF s = <<>> THEN <<>>
    ELSE (IF Head(s) = c THEN r ELSE <<Head(s)>>) \o Replace(Tail(s), c, r)

RECURSIVE LStrip(_)
LStrip(s) == IF s # <<>> /\ IsSpace(Head(s)) THEN LStrip(Tail(s)) ELSE s

RECURSIVE RStrip(_)
RStrip(s) ==
    IF s # <<>> /\ IsSpace(s[Len(s)]) THEN RStrip(SubSeq(s, 1, Len(s) - 1)) ELSE s

\* str.strip()
Strip(s) == RStrip(LStrip(s))

-----------------------------------------------------------------------------
(* PRICE_RE and extract_price_from_text *)

RECURSIVE SkipSpaces(_, _)
\* \s* from position i: the first position at or after i that holds no whitespace
SkipSpaces(s, i) ==
    IF i <= Len(s) /\ IsSpace(s[i]) THEN SkipSpaces(s, i + 1) ELSE i

RECURSIVE DigitRun(_, _, _)
\* \d{1,max} from position i, greedy: the number of digits consumed
DigitRun(s, i, max) ==
    IF max > 0 /\ i <= Len(s) /\ IsDigit(s[i]) THEN 1 + DigitRun(s, i + 1, max - 1) ELSE 0

MaxIntDigits == 5

MaxFracDigits == 2

\* PRICE_RE.match at position i: the position after the match, or 0 if there is none.
\*   \$?  \s*  \d{1,5}  (?:\.\d{1,2})?
PriceMatchEnd(s, i) ==
    LET j == IF i <= Len(s) /\ s[i] = "$" THEN i + 1 ELSE i
        k == SkipSpaces(s, j)
        d == DigitRun(s, k, MaxIntDigits)
        e == k + d
        f == IF e <= Len(s) /\ s[e] = "." THEN DigitRun(s, e + 1, MaxFracDigits) ELSE 0
    IN  IF d = 0 THEN 0
        ELSE IF f = 0 THEN e
        ELSE e + 1 + f

RECURSIVE PriceSearch(_, _)
\* PRICE_RE.search: the leftmost match <<start, end>> at or after i, or <<>>
PriceSearch(s, i) ==
    IF i > Len(s) THEN <<>>
    ELSE IF PriceMatchEnd(s, i) # 0 THEN <<i, PriceMatchEnd(s, i)>>
    ELSE PriceSearch(s, i + 1)

RECURSIVE IntOf(_)
\* the value of a string of digits
IntOf(s) == IF s = <<>> THEN 0 ELSE 10 * IntOf(SubSeq(s, 1, Len(s) - 1)) + DigitVal(s[Len(s)])

\* float(x) for x of the shape PRICE_RE leaves after the "$" and the whitespace
\* are removed: digits, optionally a "." and one or two digits.  In cents.
\* Any other string makes float raise, which safe_float turns into None.
safe_float(x) ==
    LET d == DigitRun(x, 1, Len(x))
        f == Len(x) - d - 1
    IN  IF d = 0 THEN None
        ELSE IF d = Len(x) THEN Some(100 * IntOf(x))
        ELSE IF x[d + 1] = "." /\ f \in 1..2 /\ DigitRun(x, d + 2, f) = f
             THEN Some(100 * IntOf(SubSeq(x, 1, d))
                       + (IF f = 1 THEN 10 ELSE 1) * IntOf(SubSeq(x, d + 2, Len(x))))
        ELSE None

\* extract_price_from_text with the commas left in the text: "$1,234.50" then
\* reads 1, and C8_OneOrTwoDecimalToken fails
extract_price_keep_commas(text) ==
    IF ~TruthyStr(text) THEN None
    ELSE LET m == PriceSearch(text[1], 1)
         IN  IF m = <<>> THEN None
             ELSE safe_float(Strip(Replace(SubSeq(text[1], m[1], m[2] - 1), "$", <<>>)))

\* extract_price_from_text(text), text an Optional[str]
extract_price_from_text(text) ==
    IF ~TruthyStr(text) THEN None
    ELSE LET t == Replace(text[1], ",", <<>>)
             m == PriceSearch(t, 1)
         IN  IF m = <<>> THEN None
             ELSE safe_float(Strip(Replace(SubSeq(t, m[1], m[2] - 1), "$", <<>>)))

-----------------------------------------------------------------------------
(* String literals of build_comps *)

S_item == <<"i", "t", "e", "m">>

S_price == <<" ", "p", "r", "i", "c", "e">>

S_similar == <<" ", "(", "s", "i", "m", "i", "l", "a", "r", ")">>

S_New == <<"N", "e", "w", " ">>

S_estimate == <<" ", "(", "e", "s", "t", "i", "m", "a", "t", "e", ")">>

S_ikea == <<"i", "k", "e", "a">>

S_sofa == <<"s", "o", "f", "a">>

S_couch == <<"c", "o", "u", "c", "h">>

S_sectional == <<"s", "e", "c", "t", "i", "o", "n", "a", "l">>

S_table == <<"t", "a", "b", "l", "e">>

S_dining_table == <<"d", "i", "n", "i", "n", "g", " ", "t", "a", "b", "l", "e">>

S_chair == <<"c", "h", "a", "i", "r">>

-----------------------------------------------------------------------------
(* round(x, 2) on exact values *)

\* a / b (b > 0) rounded to the nearest integer, ties to even
RoundDiv(a, b) ==
    LET q == a \div b
        r == a % b
    IN  IF 2 * r < b THEN q
        ELSE IF 2 * r > b THEN q + 1
        ELSE IF q % 2 = 0 THEN q ELSE q + 1

-----------------------------------------------------------------------------
(* google_cse_search *)

\* num = max(1, min(num, 10))
ClampNum(num) ==
    LET m == IF num < 10 THEN num ELSE 10
    IN  IF m > 1 THEN m ELSE 1

\* The exceptions the HTTP exchange can end in:
\*   requests.get raises (Timeout, ConnectionError), r.raise_for_status() raises
\*   on a non-2xx status (HTTPError), r.json() raises on a body that is not JSON
\*   (JSONDecodeError), data.get raises on a JSON body that is no object
\*   (AttributeError).
AdapterFailures == {"Timeout", "ConnectionError", "HTTPError", "JSONDecodeError", "AttributeError"}

\* google_cse_search(query, num) when the API answers resp:
\*   resp.kind is "ok" (a 2xx JSON object with resp.items) or an AdapterFailures member.
\* Yields the exception raised ("" if none), the list returned, and the request
\* sent to the API (None if no request was sent).
google_cse_search(query, num, key, cx, resp) ==
    IF ~(key # "" /\ cx # "")
    THEN [raised |-> "", out |-> <<>>, request |-> None]
    ELSE LET req == Some([q |-> query, num |-> ClampNum(num)])
         IN  IF resp.kind # "ok"
             THEN [raised |-> resp.kind, out |-> <<>>, request |-> req]
             ELSE [raised |-> "",
                   out |-> [i \in DOMAIN resp.items |->
                               [title |-> resp.items[i].title,
                                url |-> resp.items[i].link,
                                snippet |-> resp.items[i].snippet]],
                   request |-> req]

-----------------------------------------------------------------------------
(* build_comps *)

\* item = (item or "").strip() or "item"
NormItem(item) ==
    LET s == Strip(IF TruthyStr(item) THEN item[1] ELSE <<>>)
    IN  IF s # <<>> THEN s ELSE S_item

\* brand_part = f"{brand} " if brand else ""
BrandPart(brand) == IF TruthyStr(brand) THEN brand[1] \o <<" ">> ELSE <<>>

\* cond_part = f" {condition}" if condition else ""
CondPart(condition) == IF TruthyStr(condition) THEN <<" ">> \o condition[1] ELSE <<>>

\* q = f"{brand_part}{item}{cond_part} price"
Query(item, brand, condition) ==
    BrandPart(brand) \o NormItem(item) \o CondPart(condition) \o S_price

\* f"{brand_part}{item} (similar)"
SimilarTitle(item, brand) == BrandPart(brand) \o NormItem(item) \o S_similar

\* f"New {brand_part}{item} (estimate)"
EstimateTitle(item, brand) == S_New \o BrandPart(brand) \o NormItem(item) \o S_estimate

\* the guard without the flag: a configured adapter is then searched with
\* ENABLE_LIVE_COMPS off, and C9_LiveGate fails
LiveGuard_creds_only(enabled, key, cx) == key # "" /\ cx # ""

\* if ENABLE_LIVE_COMPS and GOOGLE_CSE_API_KEY and GOOGLE_CSE_CX
LiveGuard(enabled, key, cx) == enabled /\ key # "" /\ cx # ""

\* the two extractions in the other order: C10_TitleIfNonZero fails
ResolvePrice_snippet_first(title, snippet) ==
    LET p == OrNum(extract_price_from_text(snippet), extract_price_from_text(Some(title)))
    IN  IF p = None THEN 0 ELSE p[1]

\* price = extract_price_from_text(title) or extract_price_from_text(snippet)
\* if price is None: price = 0.0
ResolvePrice(title, snippet) ==
    LET p == OrNum(extract_price_from_text(Some(title)), extract_price_from_text(snippet))
    IN  IF p = None THEN 0 ELSE p[1]

\* one iteration of the loop over the search results
LiveComp(res, item, brand) ==
    LET title == IF TruthyStr(res.title) THEN res.title[1] ELSE SimilarTitle(item, brand)
    IN  [source |-> "Web (CSE)",
         title |-> title,
         price |-> ResolvePrice(title, res.snippet),
         url |-> res.url]

\* the live list kept whatever its prices: C2_NeverAllZero fails
DropAllZero_keep(comps) == comps

\* if comps and all(c["price"] == 0.0 for c in comps): comps = []
DropAllZero(comps) ==
    IF comps # <<>> /\ \A i \in DOMAIN comps : comps[i].price = 0 THEN <<>> ELSE comps

BaseDefault == 3000

BaseIkea == 3500

BaseSofa == 25000

BaseTable == 12000

BaseChair == 3500

\* the brand test made after the item tests: an IKEA sofa then has the brand's
\* base, and C4_SyntheticComps fails
BasePrice_brand_last(item, brand) ==
    LET it == Lower(NormItem(item))
        b0 == BaseDefault
        b2 == IF it \in {S_sofa, S_couch, S_sectional} THEN BaseSofa ELSE b0
        b3 == IF it \in {S_table, S_dining_table} THEN BaseTable ELSE b2
        b4 == IF it \in {S_chair} THEN BaseChair ELSE b3
    IN  IF TruthyStr(brand) /\ Lower(brand[1]) \in {S_ikea} THEN BaseIkea ELSE b4

\* the four sequential ifs that pick the base price (cents); a later one overrides
BasePrice(item, brand) ==
    LET it == Lower(NormItem(item))
        b0 == BaseDefault
        b1 == IF TruthyStr(brand) /\ Lower(brand[1]) \in {S_ikea} THEN BaseIkea ELSE b0
        b2 == IF it \in {S_sofa, S_couch, S_sectional} THEN BaseSofa ELSE b1
        b3 == IF it \in {S_table, S_dining_table} THEN BaseTable ELSE b2
        b4 == IF it \in {S_chair} THEN BaseChair ELSE b3
    IN  b4

\* round(base * m, 2), the multiplier m given in hundredths
SynthPrice(base, pct) == RoundDiv(base * pct, 100)

\* the fallback list
SyntheticComps(item, brand) ==
    LET base == BasePrice(item, brand)
        sim == SimilarTitle(item, brand)
    IN  << [source |-> "Marketplace", title |-> sim, price |-> SynthPrice(base, 85), url |-> None],
           [source |-> "Marketplace", title |-> sim, price |-> SynthPrice(base, 95), url |-> None],
           [source |-> "Marketplace", title |-> sim, price |-> SynthPrice(base, 105), url |-> None],
           [source |-> "Retail (est.)", title |-> EstimateTitle(item, brand),
            price |-> SynthPrice(base, 145), url |-> None] >>

LiveNum == 5

\* build_comps(item, brand, condition) under the configuration <<enabled, key, cx>>
\* when the search API would answer resp.  Yields
\*   raised   the exception that leaves build_comps ("" if it returns),
\*   value    the list returned,
\*   branch   which return produced it ("live", "fallback", or "raise"),
\*   request  the request sent to the search API (None if none was sent),
\*   results  the search results the loop ran over (None if no search ran).
build_comps(item, brand, condition, enabled, key, cx, resp) ==
    IF LiveGuard(enabled, key, cx)
    THEN LET s == google_cse_search(Query(item, brand, condition), LiveNum, key, cx, resp)
             comps == DropAllZero([i \in DOMAIN s.out |-> LiveComp(s.out[i], item, brand)])
         IN  IF s.raised # ""
             THEN [raised |-> s.raised, value |-> <<>>, branch |-> "raise",
                   request |-> s.request, results |-> None]
             ELSE IF comps # <<>>
             THEN [raised |-> "", value |-> comps, branch |-> "live",
                   request |-> s.request, results |-> Some(s.out)]
             ELSE [raised |-> "", value |-> SyntheticComps(item, brand), branch |-> "fallback",
                   request |-> s.request, results |-> Some(s.out)]
    ELSE [raised |-> "", value |-> SyntheticComps(item, brand), branch |-> "fallback",
          request |-> None, results |-> None]

-----------------------------------------------------------------------------
(* recommend_price *)

RECURSIVE SumSeq(_)
SumSeq(s) == IF s = <<>> THEN 0 ELSE Head(s) + SumSeq(Tail(s))

RECURSIVE SumSquares(_)
SumSquares(s) == IF s = <<>> THEN 0 ELSE Head(s) * Head(s) + SumSquares(Tail(s))

RECURSIVE MinSeq(_)
MinSeq(s) ==
    IF Len(s) = 1 THEN s[1]
    ELSE LET m == MinSeq(Tail(s)) IN IF Head(s) < m THEN Head(s) ELSE m

RECURSIVE MaxSeq(_)
MaxSeq(s) ==
    IF Len(s) = 1 THEN s[1]
    ELSE LET m == MaxSeq(Tail(s)) IN IF Head(s) > m THEN Head(s) ELSE m

RECURSIVE FloorSqrtIn(_, _, _)
\* the largest r in lo..hi with r * r <= x (lo * lo <= x is given)
FloorSqrtIn(x, lo, hi) ==
    IF lo = hi THEN lo
    ELSE LET mid == (lo + hi + 1) \div 2
         IN  IF mid * mid <= x THEN FloorSqrtIn(x, mid, hi) ELSE FloorSqrtIn(x, lo, mid - 1)

\* math.sqrt, rounded down and up to an integer (46340 is the largest root
\* whose square the model's integers hold)
FloorSqrt(x) == FloorSqrtIn(x, 0, 46340)

CeilSqrt(x) == LET r == FloorSqrt(x) IN IF r * r = x THEN r ELSE r + 1

\* prices = [c.get("price") for c in comps
\*           if isinstance(c.get("price"), (int, float)) and c.get("price") > 0]
\* (a price that is missing or no number is None here)
RECURSIVE UsablePrices(_)
UsablePrices(comps) ==
    IF comps = <<>> THEN <<>>
    ELSE (IF Head(comps).price # None /\ Head(comps).price[1] > 0
          THEN <<Head(comps).price[1]>> ELSE <<>>) \o UsablePrices(Tail(comps))

DefaultRec == 5000

BandFloor == 200

LowFloor == 100

MediumCount == 3

\* the test written "expected_price is not None": an expected price of 0 is
\* then blended in, and C6_BlendUnlessZero fails
UseExpected_provided(expected_price) == expected_price # None

\* the test "if expected_price" / "expected_price if expected_price else ..."
UseExpected(expected_price) == TruthyNum(expected_price)

\* the threshold tested with >: three usable comps then give low, and
\* C7_Confidence fails
Confidence_gt(n) == IF n > MediumCount THEN "medium" ELSE "low"

\* confidence = "medium" if len(prices) >= 3 else "low"
Confidence(n) == IF n >= MediumCount THEN "medium" ELSE "low"

\* the branch taken when prices is empty
RecommendDefault(expected_price) ==
    LET rec == IF UseExpected(expected_price) THEN expected_price[1] ELSE DefaultRec
    IN  [recommended_price |-> rec,
         low |-> RoundDiv(rec * 9, 10),
         high |-> RoundDiv(rec * 11, 10),
         confidence |-> "low",
         notes |-> <<"default">>]

\* the note that compares expected_price with the comp prices
RangeNotes(expected_price, prices) ==
    IF ~UseExpected(expected_price) THEN <<>>
    ELSE IF expected_price[1] < MinSeq(prices) THEN <<"below">>
    ELSE IF expected_price[1] > MaxSeq(prices) THEN <<"above">>
    ELSE <<"within">>

\* The branch taken when prices is not empty.  With n = len(prices), S = sum(prices)
\* and Q = the sum of their squares:
\*   avg   = S / n
\*   base  = expected_price if expected_price else avg = B / n
\*   rec   = 0.6 * base + 0.4 * avg = R / (10 n),  R = 6 B + 4 S
\*   stdev = sqrt(D) / n,  D = n Q - S^2
\*   band  = max(2.0, stdev);  low = max(1.0, rec - band);  high = rec + band
RecommendFromPrices(expected_price, prices) ==
    LET n == Len(prices)
        S == SumSeq(prices)
        D == n * SumSquares(prices) - S * S
        B == IF UseExpected(expected_price) THEN expected_price[1] * n ELSE S   \* n * base
        R == 6 * B + 4 * S
        flat == D <= BandFloor * BandFloor * n * n          \* stdev <= 2.0
        root == FloorSqrt(D)
        exact == root * root = D                            \* stdev is rational
        lowR == IF flat THEN RoundDiv(R - 10 * BandFloor * n, 10 * n)
                ELSE IF exact THEN RoundDiv(R - 10 * root, 10 * n)
                ELSE (R + 5 * n - CeilSqrt(100 * D)) \div (10 * n)
        highR == IF flat THEN RoundDiv(R + 10 * BandFloor * n, 10 * n)
                 ELSE IF exact THEN RoundDiv(R + 10 * root, 10 * n)
                 ELSE (R + 5 * n + FloorSqrt(100 * D)) \div (10 * n)
    IN  [recommended_price |-> RoundDiv(R, 10 * n),
         low |-> IF lowR > LowFloor THEN lowR ELSE LowFloor,
         high |-> highR,
         confidence |-> Confidence(n),
         notes |-> RangeNotes(expected_price, prices) \o <<"tip_wait", "tip_photos">>]

recommend_price(expected_price, comps) ==
    LET prices == UsablePrices(comps)
    IN  IF prices = <<>> THEN RecommendDefault(expected_price)
        ELSE RecommendFromPrices(expected_price, prices)

-----------------------------------------------------------------------------
(* The inputs the model draws from *)

Alphabet == {"$", " ", ",", ".", "0", "5", "x"}

T_1234_50_firm == <<"$", "1", ",", "2", "3", "4", ".", "5", "0", " ", "f", "i", "r", "m">>

T_Sofa_299 == <<"S", "o", "f", "a", " ", "2", "9", "9">>

T_no_price_listed ==
    <<"n", "o", " ", "p", "r", "i", "c", "e", " ", "l", "i", "s", "t", "e", "d">>

T_123456 == <<"1", "2", "3", "4", "5", "6">>

T_12_345 == <<"1", "2", ".", "3", "4", "5">>

T_was_80_now_65_5 ==
    <<"w", "a", "s", " ", "$", " ", "8", "0", " ", "n", "o", "w", " ", "6", "5", ".", "5">>

T_0_fees == <<"0", " ", "f", "e", "e", "s">>

T_only_25 == <<"o", "n", "l", "y", " ", "$", "2", "5">>

T_nice == <<"n", "i", "c", "e">>

T_good == <<"g", "o", "o", "d">>

T_IKEA == <<"I", "K", "E", "A">>

T_Acme == <<"A", "c", "m", "e">>

T_Chair == <<"C", "h", "a", "i", "r">>

T_SOFA == <<"S", "O", "F", "A">>

T__table_ == <<" ", "t", "a", "b", "l", "e", " ">>

T_stool == <<"s", "t", "o", "o", "l">>

T_bar_25 == <<"b", "a", "r", " ", "2", "5">>

T_url == <<"u", "r", "l">>

SampleTexts ==
    {T_1234_50_firm, T_Sofa_299, T_no_price_listed, T_123456, T_12_345, T_was_80_now_65_5}

\* the texts extract_price_from_text is called on: None, and every string
Texts == {None} \cup {Some(t) : t \in BoundedSeq(Alphabet, MaxTextLen) \cup SampleTexts}

Items == {None, Some(S_chair), Some(T_Chair), Some(T_SOFA), Some(T__table_),
          Some(S_dining_table), Some(T_stool), Some(T_bar_25)}

Brands == {None, Some(<<>>), Some(T_IKEA), Some(S_ikea), Some(T_Acme)}

Conditions == {None, Some(T_good)}

ItemTitles == {None, Some(T_Sofa_299), Some(T_0_fees), Some(T_nice)}

ItemSnippets == {Some(<<>>), Some(T_only_25), Some(T_nice)}

\* one item of the search API's JSON answer
ResponseItems ==
    [title : ItemTitles, link : {Some(T_url)}, snippet : ItemSnippets]

\* what the search API can answer
Responses ==
    {[kind |-> k, items |-> <<>>] : k \in AdapterFailures}
    \cup {[kind |-> "ok", items |-> its] : its \in BoundedSeq(ResponseItems, MaxResults)}

ExpectedPrices == {None, Some(-500), Some(0), Some(50), Some(5000), Some(8000), Some(10000)}

LowPrices == {None, Some(-100), Some(0), Some(50), Some(300)}

HighPrices == {Some(0), Some(7000), Some(8000), Some(9000)}

CompsOf(P) == BoundedSeq([price : P], MaxComps)

CompLists == CompsOf(LowPrices) \cup CompsOf(HighPrices)

ExtractCalls == {[op |-> "extract_price_from_text", text |-> t] : t \in Texts}

BuildCalls ==
    {[op |-> "build_comps", item |-> i, brand |-> b, condition |-> c] :
        i \in Items, b \in Brands, c \in Conditions}

RecommendCalls ==
    {[op |-> "recommend_price", expected_price |-> e, comps |-> cs] :
        e \in ExpectedPrices, cs \in CompLists}

NoRet == [kind |-> "none"]

-----------------------------------------------------------------------------
(* The state machine: one call of the core, under one configuration *)

\* ENABLE_LIVE_COMPS = os.getenv("ENABLE_LIVE_COMPS", "0") == "1", and the two
\* credentials, "" when unset
InitConfig ==
    /\ ENABLE_LIVE_COMPS \in BOOLEAN
    /\ GOOGLE_CSE_API_KEY \in {"", "key"}
    /\ GOOGLE_CSE_CX \in {"", "cx"}

\* the session state a new session starts with (app.py's "if ... not in
\* st.session_state" defaults), and no handler running
FrontendInit ==
    /\ messages = 0
    /\ last_agent = None
    /\ sell_context = None
    /\ form_data = None
    /\ handler = "idle"
    /\ attempt_log = <<>>
    /\ last_err = ""
    /\ interactions = 0

\* the configuration of an empty environment
DefaultConfig ==
    /\ ENABLE_LIVE_COMPS = FALSE
    /\ GOOGLE_CSE_API_KEY = ""
    /\ GOOGLE_CSE_CX = ""

\* build_comps is the one operation that reads the configuration: its calls are
\* taken under every configuration, the others under the default one
Init ==
    /\ pc = "call"
    /\ \/ call \in BuildCalls /\ InitConfig
       \/ call \in ExtractCalls \cup RecommendCalls /\ DefaultConfig
    /\ ret = NoRet
    /\ http_gets = 0
    /\ FrontendInit

ExtractPrice ==
    /\ pc = "call"
    /\ call.op = "extract_price_from_text"
    /\ ret' = [kind |-> "extract", value |-> extract_price_from_text(call.text)]
    /\ pc' = "done"
    /\ UNCHANGED <<call, config, http_gets, fvars>>

\* an answer that stands for "the API was not asked"
NoResponse == [kind |-> "ok", items |-> <<>>]

\* whether this call of build_comps sends a request (the answer plays no part in it)
SendsRequest ==
    build_comps(call.item, call.brand, call.condition,
                ENABLE_LIVE_COMPS, GOOGLE_CSE_API_KEY, GOOGLE_CSE_CX, NoResponse).request # None

\* build_comps runs to its end; the search API answers if it is asked
BuildComps ==
    /\ pc = "call"
    /\ call.op = "build_comps"
    /\ \E resp \in (IF SendsRequest THEN Responses ELSE {NoResponse}) :
         LET r == build_comps(call.item, call.brand, call.condition,
                              ENABLE_LIVE_COMPS, GOOGLE_CSE_API_KEY, GOOGLE_CSE_CX, resp)
         IN  /\ ret' = [kind |-> "comps", raised |-> r.raised, value |-> r.value,
                        branch |-> r.branch, request |-> r.request, results |-> r.results,
                        response |-> IF r.request = None THEN None ELSE Some(resp)]
             /\ http_gets' = http_gets + (IF r.request = None THEN 0 ELSE 1)
    /\ pc' = "done"
    /\ UNCHANGED <<call, config, fvars>>

RecommendPrice ==
    /\ pc = "call"
    /\ call.op = "recommend_price"
    /\ ret' = [kind |-> "recommendation",
               value |-> recommend_price(call.expected_price, call.comps)]
    /\ pc' = "done"
    /\ UNCHANGED <<call, config, http_gets, fvars>>

Next == ExtractPrice \/ BuildComps \/ RecommendPrice

Spec == Init /\ [][Next]_vars

-----------------------------------------------------------------------------
(* The frontend: call_backend_interpret and the two handlers that call it *)

\* A backend answer as the frontend reads it: resp.get("_error") (err, "" if
\* absent), resp.get("intent") ("" if absent) and resp.get("form") (None if
\* absent or null, else the names of the form's fields; <<>> is the empty form {}).
Resp(err, intent, form) == [err |-> err, intent |-> intent, form |-> form]

F_price == <<"price">>

F_price_notes == <<"price", "notes">>

\* the JSON bodies a backend answers with: the three shapes of agent_interpret
\* (greeting; sell_item with a form; sell_item with form null, the DETAILS
\* answer), and the shapes the frontend's tests tell apart from them
Bodies ==
    {Resp("", "greeting", None),
     Resp("", "sell_item", Some(F_price)),
     Resp("", "sell_item", Some(F_price_notes)),
     Resp("", "sell_item", None),
     Resp("", "sell_item", Some(<<>>)),
     Resp("", "other", Some(F_price)),
     Resp("boom", "sell_item", Some(F_price))}

ErrorStatus == 400

DefaultRetries == 2

\* what one requests.post can end in: an exception, or an HTTP response with a
\* status and a body that is JSON (Some(body)) or is not (None)
Outcomes ==
    {[kind |-> "raise", status |-> 0, body |-> None]}
    \cup {[kind |-> "response", status |-> st, body |-> None] : st \in {200, 400, 500}}
    \cup {[kind |-> "response", status |-> st, body |-> Some(b)] : st \in {200, 399}, b \in Bodies}

\* for _ in range(retries + 1)
MaxAttempts == DefaultRetries + 1

\* the attempt returns {"_error": "Backend error ..."}: if r.status_code >= 400
ReturnsBackendError(o) == o.kind = "response" /\ o.status >= ErrorStatus

\* an attempt that retries on every exception and on a status >= 400 as well:
\* C11_Terminates fails
Retries_on_error_status(o) == o.kind = "raise" \/ o.body = None

\* the attempt ends in the except clause: requests.post raised, or r.json()
\* raised on a body that is not JSON
Retries(o) == o.kind = "raise" \/ (~ReturnsBackendError(o) /\ o.body = None)

\* the exception the except clause binds
ExceptionOf(o) == IF o.kind = "raise" THEN "Timeout" ELSE "JSONDecodeError"

\* Attempt number n of call_backend_interpret ends in o: whether the call
\* returns, and what
AfterAttempt(n, o) ==
    IF Retries(o)
    THEN [returns |-> n >= MaxAttempts,
          value |-> Resp("Failed to reach backend", "", None)]
    ELSE IF ReturnsBackendError(o)
    THEN [returns |-> TRUE, value |-> Resp("Backend error", "", None)]
    ELSE [returns |-> TRUE, value |-> o.body[1]]

\* a sell_item answer of any form sets the context: C12_SellContextKept fails
SetsSellContext_any_form(resp) == resp.intent = "sell_item"

\* if intent == "sell_item" and resp.get("form")
SetsSellContext(resp) == resp.intent = "sell_item" /\ TruthyStr(resp.form)

\* ctx = st.session_state.sell_context or {};  form0 = ctx.get("form")
Form0 == IF sell_context = None THEN None ELSE sell_context[1].form

\* The chat handler up to its first POST: a chat message arrived
ChatInput ==
    /\ handler = "idle"
    /\ interactions < MaxInteractions
    /\ messages' = messages + 1
    /\ handler' = "chat"
    /\ attempt_log' = <<>>
    /\ last_err' = ""
    /\ interactions' = interactions + 1
    /\ UNCHANGED <<last_agent, sell_context, form_data>>
    /\ UNCHANGED vars

\* The form handler up to its first POST: the rendered form was submitted
FormSubmit ==
    /\ handler = "idle"
    /\ interactions < MaxInteractions
    /\ TruthyStr(Form0)
    /\ form_data' = Some(Form0[1])
    /\ handler' = "form"
    /\ attempt_log' = <<>>
    /\ last_err' = ""
    /\ interactions' = interactions + 1
    /\ UNCHANGED <<messages, last_agent, sell_context>>
    /\ UNCHANGED vars

\* One POST of call_backend_interpret ends; if the call returns with it, the
\* handler runs to its end:
\*   chat:  last_agent = resp; sell_context = resp if resp has no _error and
\*          intent == "sell_item" and resp.get("form")
\*   form:  last_agent = resp2
PostAttempt ==
    /\ handler \in {"chat", "form"}
    /\ \E o \in Outcomes :
         LET r == AfterAttempt(Len(attempt_log) + 1, o)
         IN  /\ attempt_log' = Append(attempt_log, o)
             /\ last_err' = IF Retries(o) THEN ExceptionOf(o) ELSE last_err
             /\ IF r.returns
                THEN /\ handler' = "idle"
                     /\ last_agent' = Some(r.value)
                     /\ sell_context' =
                           IF handler = "chat" /\ r.value.err = "" /\ SetsSellContext(r.value)
                           THEN Some(r.value) ELSE sell_context
                ELSE UNCHANGED <<handler, last_agent, sell_context>>
    /\ UNCHANGED <<messages, form_data, interactions>>
    /\ UNCHANGED vars

\* the backend core is not part of the frontend's process
FrontendCoreIdle ==
    /\ pc = "idle"
    /\ call = [op |-> "none"]
    /\ ret = NoRet
    /\ DefaultConfig
    /\ http_gets = 0

InitFrontend == FrontendCoreIdle /\ FrontendInit

NextFrontend == ChatInput \/ FormSubmit \/ PostAttempt

\* requests.post is given a timeout, so an attempt that has begun ends
SpecFrontend ==
    /\ InitFrontend
    /\ [][NextFrontend]_<<vars, fvars>>
    /\ WF_<<vars, fvars>>(PostAttempt)

-----------------------------------------------------------------------------
(* Properties *)

Returned(op) == pc = "done" /\ call.op = op

Abs(x) == IF x < 0 THEN -x ELSE x

\* v is x / d (d > 0) rounded to the nearest integer
IsRounded(v, x, d) == 2 * Abs(v * d - x) <= d

\* the prices of a list of comps, in order
PricesOf(comps) == [i \in DOMAIN comps |-> comps[i].price]

SourcesOf(comps) == [i \in DOMAIN comps |-> comps[i].source]

----
\* C1: when live lookup is enabled and configured and the Search Adapter call
\* fails (timeout, network error, non-2xx response, malformed payload),
\* build_comps does not raise and returns the synthetic comps for the same
\* (item, brand, condition).
C1_AdapterFailureFallsBack ==
    (/\ Returned("build_comps")
     /\ ret.response # None
     /\ ret.response[1].kind \in AdapterFailures)
    => (/\ ret.raised = ""
        /\ ret.branch = "fallback"
        /\ Len(ret.value) = 4)

----
\* C2: build_comps never returns a list in which every comp price is 0.0: the
\* returned list has at least one comp and at least one price > 0, and when the
\* live list is empty or resolves to 0.0 throughout, the 4 synthetic comps are
\* returned in its place.
C2_NeverAllZero ==
    (Returned("build_comps") /\ ret.raised = "")
    => (/\ Len(ret.value) >= 1
        /\ \E i \in DOMAIN ret.value : ret.value[i].price > 0
        /\ (ret.results # None
            /\ \A i \in DOMAIN ret.results[1] :
                  /\ extract_price_from_text(ret.results[1][i].snippet) \in {None, Some(0)}
                  /\ extract_price_from_text(
                        IF TruthyStr(ret.results[1][i].title) THEN ret.results[1][i].title
                        ELSE Some(SimilarTitle(call.item, call.brand))) \in {None, Some(0)})
           => (/\ Len(ret.value) = 4
               /\ \A i \in DOMAIN ret.value : ret.value[i].source # "Web (CSE)"))

\* a search that returned results, none with a price, was answered by the fallback
C2_Witness ==
    /\ Returned("build_comps")
    /\ ret.results # None
    /\ Len(ret.results[1]) >= 1
    /\ \A i \in DOMAIN ret.results[1] :
          ret.results[1][i].title = Some(T_0_fees) /\ ret.results[1][i].snippet = Some(T_nice)
    /\ ret.branch = "fallback"
    /\ Len(ret.value) = 4

----
\* C3: for every expected_price and every comp list with at least one comp of
\* price > 0, the Recommendation satisfies low <= recommended_price <= high and
\* low >= 1.0, all three values non-negative.
C3_BandOrdered ==
    (/\ Returned("recommend_price")
     /\ \E i \in DOMAIN call.comps :
           call.comps[i].price # None /\ call.comps[i].price[1] > 0)
    => (/\ ret.value.low <= ret.value.recommended_price
        /\ ret.value.recommended_price <= ret.value.high
        /\ ret.value.low >= 100
        /\ ret.value.recommended_price >= 0
        /\ ret.value.high >= 0)

----
\* the base price of the claim's table: the item category first, the brand
\* only for an item of no listed category
C4_Base(item, brand) ==
    LET it == Lower(NormItem(item))
    IN  IF it = S_sofa \/ it = S_couch \/ it = S_sectional THEN 25000
        ELSE IF it = S_table \/ it = S_dining_table THEN 12000
        ELSE IF it = S_chair THEN 3500
        ELSE IF brand # None /\ Lower(brand[1]) = S_ikea THEN 3500
        ELSE 3000

\* C4: whenever build_comps falls back to synthesis it returns exactly 4 comps,
\* in order, with sources Marketplace x3 and Retail (est.), url none, and prices
\* base * 0.85, 0.95, 1.05, 1.45 rounded to 2 decimals, base taken from the
\* item category (case-insensitively) and only otherwise from the brand;
\* chair with no brand gives [29.75, 33.25, 36.75, 50.75].
C4_SyntheticComps ==
    (Returned("build_comps") /\ ret.branch = "fallback")
    => (/\ Len(ret.value) = 4
        /\ SourcesOf(ret.value) = <<"Marketplace", "Marketplace", "Marketplace", "Retail (est.)">>
        /\ \A i \in 1..4 : ret.value[i].url = None
        /\ LET base == C4_Base(call.item, call.brand)
               mult == <<85, 95, 105, 145>>
           IN  \A i \in 1..4 : IsRounded(ret.value[i].price, base * mult[i], 100)
        /\ (Lower(NormItem(call.item)) = S_chair /\ call.brand = None)
           => PricesOf(ret.value) = <<2975, 3325, 3675, 5075>>)

\* an IKEA sofa falls back to the sofa base, not to the brand's
C4_Witness ==
    /\ Returned("build_comps")
    /\ ret.branch = "fallback"
    /\ call.item = Some(T_SOFA)
    /\ call.brand = Some(T_IKEA)
    /\ PricesOf(ret.value) = <<21250, 23750, 26250, 36250>>

----
\* C5: with no comp of price > 0, recommended_price is expected_price if that
\* is provided and > 0 and 50.0 otherwise, low = 0.9 * recommended,
\* high = 1.1 * recommended, confidence is low, and there is exactly one note.
C5_DefaultBranch ==
    (/\ Returned("recommend_price")
     /\ \A i \in DOMAIN call.comps :
           call.comps[i].price = None \/ call.comps[i].price[1] <= 0)
    => LET e == call.expected_price
           rec == IF e # None /\ e[1] > 0 THEN e[1] ELSE 5000
       IN  /\ ret.value.recommended_price = rec
           /\ IsRounded(ret.value.low, 9 * rec, 10)
           /\ IsRounded(ret.value.high, 11 * rec, 10)
           /\ ret.value.confidence = "low"
           /\ Len(ret.value.notes) = 1

----
\* the comps with a usable price
C_Usable(comps) == {i \in DOMAIN comps : comps[i].price # None /\ comps[i].price[1] > 0}

RECURSIVE C_SumOver(_, _)
C_SumOver(comps, I) ==
    IF I = {} THEN 0
    ELSE LET i == CHOOSE j \in I : TRUE
         IN  comps[i].price[1] + C_SumOver(comps, I \ {i})

\* recommended_price is 0.6 * base + 0.4 * avg to the cent, avg the mean of the
\* usable prices, base expected_price if useExpected and avg otherwise
C6_Blend(useExpected) ==
    LET I == C_Usable(call.comps)
        n == Cardinality(I)
        S == C_SumOver(call.comps, I)
        nBase == IF useExpected THEN call.expected_price[1] * n ELSE S
    IN  IsRounded(ret.value.recommended_price, 6 * nBase + 4 * S, 10 * n)

\* C6 as stated: with at least one comp of price > 0, recommended_price =
\* 0.6 * base + 0.4 * avg, base being expected_price whenever one is provided
\* (0 included) and avg only when it is absent.
C6_BlendWheneverProvided ==
    (Returned("recommend_price") /\ C_Usable(call.comps) # {})
    => C6_Blend(call.expected_price # None)

\* C6 amended: with at least one comp of price > 0, recommended_price =
\* 0.6 * base + 0.4 * avg rounded to 2 decimals, base being expected_price when
\* one is provided and is not 0, and avg when it is absent or 0.
C6_BlendUnlessZero ==
    (Returned("recommend_price") /\ C_Usable(call.comps) # {})
    => C6_Blend(call.expected_price # None /\ call.expected_price[1] # 0)

\* an expected price of 0 against comps of 80, 90 and 70 recommends their mean
C6_Witness ==
    /\ Returned("recommend_price")
    /\ call.expected_price = Some(0)
    /\ PricesOf(call.comps) = <<Some(8000), Some(9000), Some(7000)>>
    /\ ret.value.recommended_price = 8000

----
\* C7: the confidence is medium if and only if at least 3 comps have a
\* price > 0, and low otherwise, the no-usable-comps branch included.
C7_Confidence ==
    Returned("recommend_price")
    => (/\ ret.value.confidence \in {"low", "medium"}
        /\ ret.value.confidence = "medium" <=> Cardinality(C_Usable(call.comps)) >= 3)

\* three usable comps among the list give medium
C7_Witness ==
    /\ Returned("recommend_price")
    /\ Cardinality(C_Usable(call.comps)) = 3
    /\ ret.value.confidence = "medium"

----
\* t[i..j] is a price token: an optional "$", then 1 to 5 digits, then
\* optionally a "." and a number of digits that is in fracs
C8_IsToken(t, i, j, fracs) ==
    LET a == IF t[i] = "$" THEN i + 1 ELSE i
    IN  \E d \in 1..5 :
          /\ a + d - 1 <= j
          /\ \A k \in a..(a + d - 1) : t[k] \in Digits
          /\ \/ j = a + d - 1
             \/ /\ t[a + d] = "."
                /\ (j - (a + d)) \in fracs
                /\ \A k \in (a + d + 1)..j : t[k] \in Digits

\* the number a price token t[i..j] writes, in cents
C8_TokenValue(t, i, j) ==
    LET a == IF t[i] = "$" THEN i + 1 ELSE i
        dot == IF \E k \in a..j : t[k] = "." THEN CHOOSE k \in a..j : t[k] = "." ELSE j + 1
        frac == SubSeq(t, dot + 1, j)
    IN  100 * IntOf(SubSeq(t, a, dot - 1))
        + (IF Len(frac) = 1 THEN 10 * IntOf(frac) ELSE IntOf(frac))

\* the value of the leftmost price token (the longest one that starts there) of
\* the text with its commas removed; None for a missing or empty text and for a
\* text with no token
C8_FirstToken(text, fracs) ==
    IF text = None THEN None
    ELSE LET t == SelectSeq(text[1], LAMBDA c : c # ",")
             toks == {p \in (1..Len(t)) \X (1..Len(t)) :
                         p[1] <= p[2] /\ C8_IsToken(t, p[1], p[2], fracs)}
         IN  IF toks = {} THEN None
             ELSE LET first == CHOOSE p \in toks :
                                 \A q \in toks :
                                    p[1] < q[1] \/ (p[1] = q[1] /\ p[2] >= q[2])
                  IN  Some(C8_TokenValue(t, first[1], first[2]))

\* the three examples of the claim
C8_Examples ==
    /\ call.text = Some(T_1234_50_firm) => ret.value = Some(123450)
    /\ call.text = Some(T_Sofa_299) => ret.value = Some(29900)
    /\ call.text = Some(T_no_price_listed) => ret.value = None

\* C8 as stated: extract_price_from_text removes the commas and returns the
\* value of the leftmost token made of an optional currency marker, 1 to 5
\* digits and an optional fractional part of 2 decimals, ignoring later
\* numbers; none for an empty or missing text and for a text with no token.
C8_TwoDecimalToken ==
    Returned("extract_price_from_text")
    => (ret.value = C8_FirstToken(call.text, {2}) /\ C8_Examples)

\* C8 amended: the same, the optional fractional part being of 1 or 2 decimals.
C8_OneOrTwoDecimalToken ==
    Returned("extract_price_from_text")
    => (ret.value = C8_FirstToken(call.text, {1, 2}) /\ C8_Examples)

\* a text whose number has one decimal: "5.5" reads 5.50
C8_Witness ==
    /\ Returned("extract_price_from_text")
    /\ call.text = Some(<<"5", ".", "5">>)
    /\ ret.value = Some(550)

----
\* C9: build_comps sends a search request only when ENABLE_LIVE_COMPS is on and
\* both credentials are present; in every other configuration no request is
\* sent, nothing is raised and the synthetic comp list is returned.
C9_LiveGate ==
    Returned("build_comps")
    => LET configured == ENABLE_LIVE_COMPS /\ GOOGLE_CSE_API_KEY # "" /\ GOOGLE_CSE_CX # ""
       IN  /\ (ret.request # None \/ http_gets > 0) => configured
           /\ ~configured
              => (/\ http_gets = 0
                  /\ ret.request = None
                  /\ ret.raised = ""
                  /\ SourcesOf(ret.value)
                       = <<"Marketplace", "Marketplace", "Marketplace", "Retail (est.)">>)

\* the flag is on and one credential is missing: the call returned the fallback
C9_Witness ==
    /\ Returned("build_comps")
    /\ ENABLE_LIVE_COMPS
    /\ GOOGLE_CSE_API_KEY # ""
    /\ GOOGLE_CSE_CX = ""
    /\ http_gets = 0
    /\ ret.branch = "fallback"

----
\* the zero of a missing value
C10_OrZero(o) == IF o = None THEN 0 ELSE o[1]

\* C10 as stated: when live lookup returns n >= 1 results of which one at least
\* resolves to a non-zero price, build_comps returns n comps in result order,
\* each priced at what the Price Extractor yields on the result's title if it
\* yields a value, otherwise at what it yields on the snippet, otherwise 0.0.
C10_TitleIfAnyValue ==
    (Returned("build_comps") /\ ret.branch = "live")
    => LET items == ret.response[1].items
       IN  /\ Len(ret.value) = Len(items)
           /\ \A i \in DOMAIN items :
                 LET t == extract_price_from_text(items[i].title)
                 IN  ret.value[i].price
                       = IF t # None THEN t[1]
                         ELSE C10_OrZero(extract_price_from_text(items[i].snippet))

\* C10 amended: ... build_comps returns n comps in result order (title and url
\* of the i-th result in the i-th comp, the title replaced by
\* "<brand> <item> (similar)" when the result has none), each priced at what the
\* Price Extractor yields on the comp's title if that is a non-zero value,
\* otherwise at what it yields on the result's snippet, otherwise 0.0.
C10_TitleIfNonZero ==
    (Returned("build_comps") /\ ret.branch = "live")
    => LET items == ret.response[1].items
       IN  /\ Len(ret.value) = Len(items)
           /\ Len(items) >= 1
           /\ \A i \in DOMAIN items :
                 LET t == extract_price_from_text(Some(ret.value[i].title))
                 IN  /\ ret.value[i].url = items[i].link
                     /\ ret.value[i].source = "Web (CSE)"
                     /\ ret.value[i].title
                          = IF items[i].title \in {None, Some(<<>>)}
                            THEN BrandPart(call.brand) \o NormItem(call.item) \o S_similar
                            ELSE items[i].title[1]
                     /\ ret.value[i].price
                          = IF t # None /\ t[1] # 0 THEN t[1]
                            ELSE C10_OrZero(extract_price_from_text(items[i].snippet))

\* two results came back, the second with a title that reads 0 and a snippet
\* that reads 25: two comps are returned, the second priced 25.00
C10_Witness ==
    /\ Returned("build_comps")
    /\ ret.branch = "live"
    /\ Len(ret.value) = 2
    /\ ret.response[1].items[2].title = Some(T_0_fees)
    /\ ret.response[1].items[2].snippet = Some(T_only_25)
    /\ ret.value[2].price = 2500
    /\ ret.value[1].price = 0

----
\* the attempt produced an HTTP response
C11_IsResponse(o) == o.kind = "response"

\* the attempt produced an HTTP response that call_backend_interpret returns
\* on: a status >= 400, or a body that is JSON
C11_IsUsableResponse(o) == o.kind = "response" /\ (o.status >= 400 \/ o.body # None)

\* The attempts of a call, with Ends(o) the attempts said to end the loop:
\* at most retries + 1 are made; an attempt that ends the loop is the last one
\* and the call has returned; any other attempt is followed by the next one
\* unless it is attempt retries + 1; and the value returned is {_error} for a
\* status >= 400, the response JSON for another response that ends the loop,
\* and {_error} when attempt retries + 1 did not end the loop.
C11_Attempts(Ends(_)) ==
    LET n == Len(attempt_log)
    IN  /\ n <= 2 + 1
        /\ \A i \in 1..n : Ends(attempt_log[i]) => (i = n /\ handler = "idle")
        /\ handler # "idle" => n < 2 + 1
        /\ (handler = "idle" /\ n > 0)
           => LET o == attempt_log[n]
              IN  /\ last_agent # None
                  /\ IF ~Ends(o) THEN n = 2 + 1 /\ last_agent[1].err # "" /\ last_err # ""
                     ELSE IF o.status >= 400 THEN last_agent[1].err # ""
                     ELSE last_agent = o.body

\* C11 as stated: call_backend_interpret ends after at most retries + 1 POST
\* attempts; an attempt that raises is followed by the next attempt, the first
\* attempt that yields an HTTP response ends the loop (status >= 400 returns
\* {_error} at once, otherwise the response JSON is returned), and retries + 1
\* raising attempts return {_error}.
C11_AnyResponseEndsLoop == C11_Attempts(C11_IsResponse)

\* C11 amended: call_backend_interpret always terminates without raising after
\* at most retries + 1 POST attempts; an attempt that raises, in requests.post
\* or in r.json() on a response of status < 400 whose body is not JSON, is
\* followed by the next attempt; the first attempt that yields a response of
\* status >= 400 (an {_error} value, no retry) or a response with a JSON body
\* (which is returned) ends the loop; retries + 1 raising attempts return {_error}.
C11_Terminates ==
    /\ []C11_Attempts(C11_IsUsableResponse)
    /\ (handler # "idle") ~> (handler = "idle")

\* a 200 answer that is not JSON was retried, and the second attempt's JSON returned
C11_Witness ==
    /\ handler = "idle"
    /\ Len(attempt_log) = 2
    /\ attempt_log[1] = [kind |-> "response", status |-> 200, body |-> None]
    /\ attempt_log[2].kind = "response"
    /\ attempt_log[2].body # None
    /\ last_agent = attempt_log[2].body

----
\* C12: across the chat messages and form submissions of a session,
\* sell_context is only ever assigned a backend response whose intent is
\* sell_item and whose form is non-empty, and once set it is never cleared:
\* a handler that ends on a greeting, an _error or a response with form null
\* (and every form submission) leaves sell_context as it was.
C12_SellContextKept ==
    [][/\ sell_context' # sell_context
          => (/\ sell_context' # None
              /\ sell_context' = last_agent'
              /\ sell_context'[1].intent = "sell_item"
              /\ sell_context'[1].form \notin {None, Some(<<>>)}
              /\ sell_context'[1].err = "")
       /\ sell_context # None => sell_context' # None
       /\ (/\ handler # "idle"
           /\ handler' = "idle"
           /\ \/ handler = "form"
              \/ last_agent'[1].err # ""
              \/ last_agent'[1].intent = "greeting"
              \/ last_agent'[1].form = None)
          => sell_context' = sell_context
      ]_<<vars, fvars>>

\* the form of an earlier sell_item answer was submitted and answered with
\* form null: the context still holds the form
C12_Witness ==
    /\ handler = "idle"
    /\ sell_context # None
    /\ form_data # None
    /\ last_agent = Some(Resp("", "sell_item", None))
    /\ sell_context[1].form = Some(F_price_notes)

====
